---- MODULE Spec2Model ----
(***************************************************************************)
(* Model of the hex-grid core of HexTileGen (src/hexgrid_utils.py).        *)
(*                                                                         *)
(* The library is a set of pure functions.  Each function is an operator   *)
(* computed the way the Python code computes it; the state machine is a    *)
(* caller that holds a function name and arguments from bounded sets (op,  *)
(* args), calls the function and records its outcome (res, or the          *)
(* exception in err).  The two breadth-first searches are followed one     *)
(* iteration of their while loop at a time; loc holds their local          *)
(* variables between iterations.                                           *)
(*                                                                         *)
(* A cube hex is a triple <<q, r, s>>, an axial or offset hex a pair.      *)
(* Python floats are modelled as exact fixed-point rationals: a triple of  *)
(* integer numerators over a common positive denominator.                  *)
(***************************************************************************)
EXTENDS Integers, Sequences, FiniteSets, TLC

VARIABLES pc, op, args, res, err, loc

vars == <<pc, op, args, res, err, loc>>

(***************************************************************************)
(* Bounds of the exploration.                                              *)
(***************************************************************************)
MaxCoord == 2
MaxDir == 7
MaxFactor == 2
MaxRadius == 3
MaxSteps == 3
MaxDenExp == 2
MaxFovRadius == 2
MaxObstacles == 2
MaxGoalDist == 2
MaxGoals == 2
MaxSearchObstacleDist == 1
MaxSearchObstacles == 2
MaxLimit == 2
MaxHorizon == 4
MaxSize == 2

HexBox(n) == {h \in (-n..n) \X (-n..n) \X (-n..n) : h[1] + h[2] + h[3] = 0}
Hexes == HexBox(MaxCoord)
Pairs == (-MaxCoord..MaxCoord) \X (-MaxCoord..MaxCoord)
Dirs == -MaxDir..MaxDir
Factors == -MaxFactor..MaxFactor
Radii == 0..MaxRadius
\* The centres the field of view is computed from: the origin and a hex
\* with coordinates of both signs.
FovCenters == {<<0, 0, 0>>, <<-1, 2, -1>>}
FovRadii == 0..MaxFovRadius
\* Scheme tags and layout names passed to the offset and pixel functions:
\* the recognized ones and one that is not.
OffsetSelectors == {"odd-r", "even-r", "odd-q", "even-q", "odd"}
Layouts == {"pointy", "flat"}
LayoutSelectors == Layouts \cup {"diagonal"}
Sizes == 1..MaxSize
\* Offset hexes the offset line, field of view and path start from, and
\* their obstacle sets.
OffsetOrigins == {<<0, 0>>, <<-1, 2>>}
OffsetObstacleSets == { {}, {<<1, 0>>}, {<<0, -1>>, <<1, 1>>} }
\* The hex the searches start from.
SearchStarts == {<<0, 0, 0>>}
\* max_distance values: None is the empty tuple, a limit m is <<m>>.
Limits == {<<>>} \cup {<<m>> : m \in 0..MaxLimit}

(***************************************************************************)
(* Python integer primitives.                                              *)
(***************************************************************************)
\* x & 1 on a Python int (two's complement, arbitrary width): the parity bit.
BitAnd1(x) == x % 2

\* x // y for y > 0: floor division.
FloorDiv(x, y) == x \div y

\* abs(x)
Abs(x) == IF x < 0 THEN -x ELSE x

\* 2 ** e
RECURSIVE Pow2(_)
Pow2(e) == IF e = 0 THEN 1 ELSE 2 * Pow2(e - 1)

(***************************************************************************)
(* Coordinate conversions.                                                 *)
(***************************************************************************)
CUBE_DIRECTIONS ==
    << <<1, 0, -1>>, <<1, -1, 0>>, <<0, -1, 1>>,
       <<-1, 0, 1>>, <<-1, 1, 0>>, <<0, 1, -1>> >>

axial_to_cube(hex) == <<hex[1], hex[2], -hex[1] - hex[2]>>

cube_to_axial(hex) == <<hex[1], hex[2]>>

\* A faulty cube_to_oddr: the parity term added instead of subtracted.
cube_to_oddr_parity_flipped(hex) ==
    LET q == hex[1]
        r == hex[2]
    IN  <<q + FloorDiv(r + BitAnd1(r), 2), r>>

cube_to_oddr(hex) ==
    LET q == hex[1]
        r == hex[2]
    IN  <<q + FloorDiv(r - BitAnd1(r), 2), r>>

oddr_to_cube(hex) ==
    LET col == hex[1]
        row == hex[2]
        q == col - FloorDiv(row - BitAnd1(row), 2)
    IN  <<q, row, -q - row>>

cube_to_evenr(hex) ==
    LET q == hex[1]
        r == hex[2]
    IN  <<q + FloorDiv(r + BitAnd1(r), 2), r>>

evenr_to_cube(hex) ==
    LET col == hex[1]
        row == hex[2]
        q == col - FloorDiv(row + BitAnd1(row), 2)
    IN  <<q, row, -q - row>>

cube_to_oddq(hex) ==
    LET q == hex[1]
        r == hex[2]
    IN  <<q, r + FloorDiv(q - BitAnd1(q), 2)>>

oddq_to_cube(hex) ==
    LET col == hex[1]
        row == hex[2]
        r == row - FloorDiv(col - BitAnd1(col), 2)
    IN  <<col, r, -col - r>>

cube_to_evenq(hex) ==
    LET q == hex[1]
        r == hex[2]
    IN  <<q, r + FloorDiv(q + BitAnd1(q), 2)>>

evenq_to_cube(hex) ==
    LET col == hex[1]
        row == hex[2]
        r == row - FloorDiv(col + BitAnd1(col), 2)
    IN  <<col, r, -col - r>>

OffsetTypes == {"odd-r", "even-r", "odd-q", "even-q"}

\* The scheme dispatch every offset_* adapter performs on the way in ...
offsetToCube(offset_type, hex) ==
    CASE offset_type = "odd-r" -> oddr_to_cube(hex)
      [] offset_type = "even-r" -> evenr_to_cube(hex)
      [] offset_type = "odd-q" -> oddq_to_cube(hex)
      [] offset_type = "even-q" -> evenq_to_cube(hex)

\* ... and on the way out.
cubeToOffset(offset_type, hex) ==
    CASE offset_type = "odd-r" -> cube_to_oddr(hex)
      [] offset_type = "even-r" -> cube_to_evenr(hex)
      [] offset_type = "odd-q" -> cube_to_oddq(hex)
      [] offset_type = "even-q" -> cube_to_evenq(hex)

(***************************************************************************)
(* Hex arithmetic, distance, neighbours.                                   *)
(***************************************************************************)
cube_add(a, b) == <<a[1] + b[1], a[2] + b[2], a[3] + b[3]>>

cube_subtract(a, b) == <<a[1] - b[1], a[2] - b[2], a[3] - b[3]>>

cube_scale(hex, k) == <<hex[1] * k, hex[2] * k, hex[3] * k>>

\* A faulty cube_rotate_left: the last two components swapped.
cube_rotate_left_swapped(hex) == <<-hex[3], -hex[2], -hex[1]>>

cube_rotate_left(hex) == <<-hex[3], -hex[1], -hex[2]>>

cube_rotate_right(hex) == <<-hex[2], -hex[3], -hex[1]>>

\* A faulty AbsDeltaSum: abs() forgotten on the s delta.
AbsDeltaSum_no_abs(a, b) == Abs(a[1] - b[1]) + Abs(a[2] - b[2]) + (a[3] - b[3])

\* The sum the distance halves.
AbsDeltaSum(a, b) == Abs(a[1] - b[1]) + Abs(a[2] - b[2]) + Abs(a[3] - b[3])

cube_distance(a, b) == FloorDiv(AbsDeltaSum(a, b), 2)

\* A faulty cube_neighbor: the index taken from the magnitude of the
\* direction, as a remainder that keeps the sign would force.
cube_neighbor_abs_index(hex, direction) ==
    cube_add(hex, CUBE_DIRECTIONS[(Abs(direction) % 6) + 1])

\* Python lists are 0-based, TLA+ sequences 1-based.
cube_neighbor(hex, direction) == cube_add(hex, CUBE_DIRECTIONS[(direction % 6) + 1])

cube_neighbors(hex) == [dir \in 1..6 |-> cube_neighbor(hex, dir - 1)]

(***************************************************************************)
(* Range finding.                                                          *)
(***************************************************************************)
\* The double loop of cube_ring, flattened: step k is side k \div radius;
\* the hex is recorded, then the walk moves to its neighbour on that side.
RECURSIVE RingWalk(_, _, _, _)
RingWalk(hex, k, radius, results) ==
    IF k >= 6 * radius
    THEN results
    ELSE RingWalk(cube_neighbor(hex, FloorDiv(k, radius)), k + 1, radius,
                  Append(results, hex))

\* A faulty cube_ring: the walk starts from the corner of direction 3.
cube_ring_wrong_corner(center, radius) ==
    IF radius = 0
    THEN <<center>>
    ELSE RingWalk(cube_add(center, cube_scale(CUBE_DIRECTIONS[3 + 1], radius)),
                  0, radius, <<>>)

cube_ring(center, radius) ==
    IF radius = 0
    THEN <<center>>
    ELSE RingWalk(cube_add(center, cube_scale(CUBE_DIRECTIONS[4 + 1], radius)),
                  0, radius, <<>>)

RECURSIVE SpiralFrom(_, _, _, _)
SpiralFrom(center, k, radius, results) ==
    IF k > radius
    THEN results
    ELSE SpiralFrom(center, k + 1, radius, results \o cube_ring(center, k))

\* A faulty cube_spiral: the ring loop starts at 0, not 1.
cube_spiral_from_zero(center, radius) == SpiralFrom(center, 0, radius, <<center>>)

cube_spiral(center, radius) == SpiralFrom(center, 1, radius, <<center>>)

(***************************************************************************)
(* Line drawing.  A float is a numerator over a denominator d > 0; a       *)
(* fractional hex is a triple of numerators over one denominator.  The     *)
(* arithmetic here is exact; the float arithmetic of the code is off by    *)
(* some 1e-15 at most, while an interpolated coordinate of a line of N     *)
(* steps is a multiple of 1/N plus the nudge, so it is at least 1e-6 away  *)
(* from a rounding boundary for every N below 100000: both round alike.    *)
(***************************************************************************)
\* Denominator that makes the nudges 1e-6 and 2e-6 whole numerators.
Scale == 1000000

\* round(n / d): nearest integer, a tie going to the even one.
PyRound(n, d) ==
    LET fl == FloorDiv(n, d)
        rem == n - fl * d
    IN  IF 2 * rem < d THEN fl
        ELSE IF 2 * rem > d THEN fl + 1
        ELSE IF fl % 2 = 0 THEN fl ELSE fl + 1

\* a, b over denominator d; t = tn / td.  Component k is
\* a[k]/d + (b[k]/d - a[k]/d) * tn/td = (a[k]*td + (b[k]-a[k])*tn) / (d*td),
\* and each component is rounded on its own before it is returned.
cube_lerp(a, b, tn, td, d) ==
    << PyRound(a[1] * td + (b[1] - a[1]) * tn, d * td),
       PyRound(a[2] * td + (b[2] - a[2]) * tn, d * td),
       PyRound(a[3] * td + (b[3] - a[3]) * tn, d * td) >>

\* A faulty cube_round: ties between the errors go to the earlier
\* component (>= for >).
cube_round_ties_first(frac, d) ==
    LET q == PyRound(frac[1], d)
        r == PyRound(frac[2], d)
        s == PyRound(frac[3], d)
        q_diff == Abs(q * d - frac[1])
        r_diff == Abs(r * d - frac[2])
        s_diff == Abs(s * d - frac[3])
    IN  IF q_diff >= r_diff /\ q_diff >= s_diff THEN <<-r - s, r, s>>
        ELSE IF r_diff >= s_diff THEN <<q, -q - s, s>>
        ELSE <<q, r, -q - r>>

\* frac over denominator d.
cube_round(frac, d) ==
    LET q == PyRound(frac[1], d)
        r == PyRound(frac[2], d)
        s == PyRound(frac[3], d)
        q_diff == Abs(q * d - frac[1])
        r_diff == Abs(r * d - frac[2])
        s_diff == Abs(s * d - frac[3])
    IN  IF q_diff > r_diff /\ q_diff > s_diff THEN <<-r - s, r, s>>
        ELSE IF r_diff > s_diff THEN <<q, -q - s, s>>
        ELSE <<q, r, -q - r>>

\* (hex[0] + 1e-6, hex[1] + 1e-6, hex[2] - 2e-6) over Scale.
Nudge(hex) == <<hex[1] * Scale + 1, hex[2] * Scale + 1, hex[3] * Scale - 2>>

\* The integer hex over Scale, not nudged.
Exact(hex) == <<hex[1] * Scale, hex[2] * Scale, hex[3] * Scale>>

\* t = 1.0 / N * i divides by zero in the first iteration when N = 0.
cube_line_raises(a, b) == cube_distance(a, b) = 0

\* The samples, for N > 0; sample i of the code is element i + 1.
cube_line(a, b) ==
    LET N == cube_distance(a, b)
    IN  [i \in 1..(N + 1) |->
            cube_round(cube_lerp(Nudge(a), Nudge(b), i - 1, N, Scale), 1)]

(***************************************************************************)
(* Field of view.                                                          *)
(***************************************************************************)
SeqToSet(seq) == {seq[i] : i \in 1..Len(seq)}

\* A faulty Blocked: the obstacle test inverted.
Blocked_inverted(center, radius, obstacles, line) ==
    \E i \in 1..Len(line) :
        \/ line[i] \notin obstacles
        \/ cube_distance(center, line[i]) > radius

\* A faulty Blocked: only the radius test, obstacles are looked through.
Blocked_radius_only(center, radius, obstacles, line) ==
    \E i \in 1..Len(line) : cube_distance(center, line[i]) > radius

\* A faulty Blocked: the walk starts at the second sample, past the center.
Blocked_after_center(center, radius, obstacles, line) ==
    \E i \in 2..Len(line) :
        \/ line[i] \in obstacles
        \/ cube_distance(center, line[i]) > radius

\* The inner loop over the line: the first sample that is an obstacle or
\* lies beyond the radius blocks the target.
Blocked(center, radius, obstacles, line) ==
    \E i \in 1..Len(line) :
        LET h == line[i]
        IN  \/ h \in obstacles
            \/ cube_distance(center, h) > radius

\* A faulty cube_visible: the center is a target like any other (ring 0).
cube_visible_center_as_target(center, radius, obstacles) ==
    UNION { {hex \in SeqToSet(cube_ring(center, ring_radius)) :
                ~Blocked(center, radius, obstacles,
                         IF hex = center THEN <<center>> ELSE cube_line(center, hex))} :
            ring_radius \in 0..radius }

cube_visible(center, radius, obstacles) ==
    {center} \cup
    UNION { {hex \in SeqToSet(cube_ring(center, ring_radius)) :
                ~Blocked(center, radius, obstacles, cube_line(center, hex))} :
            ring_radius \in 1..radius }

\* cube_visible raises when one of its lines does.
cube_visible_raises(center, radius) ==
    \E ring_radius \in 1..radius :
        \E hex \in SeqToSet(cube_ring(center, ring_radius)) :
            cube_line_raises(center, hex)

(***************************************************************************)
(* Breadth-first search.  A dict is a function on its set of keys; None is *)
(* the empty tuple, and max_distance is None or <<m>>.  The grid has no    *)
(* edge, so a search is followed while the hex it dequeues lies within     *)
(* MaxHorizon of start; every obstacle drawn lies within the horizon, so a *)
(* search that dequeues a hex beyond it has reached the endless free part  *)
(* of the grid and its frontier never runs empty afterwards.               *)
(***************************************************************************)
None == <<>>

\* A faulty cube_bfs_locals: start recorded at distance 1.
cube_bfs_locals_from_one(start) ==
    [frontier |-> <<start>>,
     came_from |-> (start :> None),
     distance |-> (start :> 1),
     found_goals |-> {}]

\* The locals of cube_bfs before the loop.
cube_bfs_locals(start) ==
    [frontier |-> <<start>>,
     came_from |-> (start :> None),
     distance |-> (start :> 0),
     found_goals |-> {}]

\* A faulty cube_bfs_skips: the limit compared with > for >=.
cube_bfs_skips_late(l, current, neighbor, obstacles, max_distance) ==
    \/ neighbor \in obstacles
    \/ neighbor \in DOMAIN l.distance
    \/ max_distance # None /\ l.distance[current] > max_distance[1]

\* A faulty cube_bfs_skips: obstacles are walked through.
cube_bfs_skips_obstacles_ignored(l, current, neighbor, obstacles, max_distance) ==
    \/ neighbor \in DOMAIN l.distance
    \/ max_distance # None /\ l.distance[current] >= max_distance[1]

\* The three continue conditions of the neighbour loop of cube_bfs.
cube_bfs_skips(l, current, neighbor, obstacles, max_distance) ==
    \/ neighbor \in obstacles
    \/ neighbor \in DOMAIN l.distance
    \/ max_distance # None /\ l.distance[current] >= max_distance[1]

\* A faulty cube_bfs_expand: a neighbour is recorded two steps beyond the
\* hex being expanded.
RECURSIVE cube_bfs_expand_two_steps(_, _, _, _, _)
cube_bfs_expand_two_steps(l, current, dir, obstacles, max_distance) ==
    IF dir > 6 THEN l
    ELSE LET neighbor == cube_neighbors(current)[dir]
             enqueued == [l EXCEPT
                            !.frontier = Append(@, neighbor),
                            !.came_from = (neighbor :> current) @@ @,
                            !.distance = (neighbor :> l.distance[current] + 2) @@ @]
         IN  cube_bfs_expand_two_steps(
                 IF cube_bfs_skips(l, current, neighbor, obstacles, max_distance)
                 THEN l ELSE enqueued,
                 current, dir + 1, obstacles, max_distance)

\* The neighbour loop of cube_bfs from the direction dir on.
RECURSIVE cube_bfs_expand(_, _, _, _, _)
cube_bfs_expand(l, current, dir, obstacles, max_distance) ==
    IF dir > 6 THEN l
    ELSE LET neighbor == cube_neighbors(current)[dir]
             enqueued == [l EXCEPT
                            !.frontier = Append(@, neighbor),
                            !.came_from = (neighbor :> current) @@ @,
                            !.distance = (neighbor :> l.distance[current] + 1) @@ @]
         IN  cube_bfs_expand(
                 IF cube_bfs_skips(l, current, neighbor, obstacles, max_distance)
                 THEN l ELSE enqueued,
                 current, dir + 1, obstacles, max_distance)

\* current = frontier.popleft() and the goal bookkeeping.
cube_bfs_dequeue(l, goals) ==
    [l EXCEPT !.frontier = Tail(@),
              !.found_goals = IF Head(l.frontier) \in goals
                              THEN @ \cup {Head(l.frontier)} ELSE @]

\* A faulty cube_bfs_breaks: the search stops once every goal is recorded,
\* dequeued or not.
cube_bfs_breaks_when_recorded(l, goals) ==
    goals \subseteq DOMAIN l.distance

\* The break: the hex dequeued is a goal and every goal has been found.
cube_bfs_breaks(l, goals) ==
    /\ Head(l.frontier) \in goals
    /\ Cardinality(cube_bfs_dequeue(l, goals).found_goals) = Cardinality(goals)

\* One iteration of the while loop of cube_bfs that does not break.
cube_bfs_iteration(l, goals, obstacles, max_distance) ==
    cube_bfs_expand(cube_bfs_dequeue(l, goals), Head(l.frontier), 1,
                    obstacles, max_distance)

\* The locals of cube_path before the loop.
cube_path_locals(start) ==
    [frontier |-> <<start>>,
     came_from |-> (start :> None)]

\* A faulty cube_path_skips: obstacles are walked through.
cube_path_skips_seen_only(l, neighbor, obstacles) ==
    neighbor \in DOMAIN l.came_from

\* A faulty cube_path_expand: a neighbour still waiting in the frontier gets
\* the hex being expanded as its new predecessor.
RECURSIVE cube_path_expand_overwrites(_, _, _, _)
cube_path_expand_overwrites(l, current, dir, obstacles) ==
    IF dir > 6 THEN l
    ELSE LET neighbor == cube_neighbors(current)[dir]
             enqueued == [l EXCEPT
                            !.frontier = Append(@, neighbor),
                            !.came_from = (neighbor :> current) @@ @]
             overwritten == [l EXCEPT !.came_from = (neighbor :> current) @@ @]
         IN  cube_path_expand_overwrites(
                 IF neighbor \in obstacles THEN l
                 ELSE IF neighbor \in SeqToSet(l.frontier) THEN overwritten
                 ELSE IF neighbor \in DOMAIN l.came_from THEN l
                 ELSE enqueued,
                 current, dir + 1, obstacles)

\* The continue conditions of the neighbour loop of cube_path.
cube_path_skips(l, neighbor, obstacles) ==
    \/ neighbor \in obstacles
    \/ neighbor \in DOMAIN l.came_from

\* The neighbour loop of cube_path from the direction dir on.
RECURSIVE cube_path_expand(_, _, _, _)
cube_path_expand(l, current, dir, obstacles) ==
    IF dir > 6 THEN l
    ELSE LET neighbor == cube_neighbors(current)[dir]
             enqueued == [l EXCEPT
                            !.frontier = Append(@, neighbor),
                            !.came_from = (neighbor :> current) @@ @]
         IN  cube_path_expand(
                 IF cube_path_skips(l, neighbor, obstacles) THEN l ELSE enqueued,
                 current, dir + 1, obstacles)

\* One iteration of the while loop of cube_path that does not break.
cube_path_iteration(l, obstacles) ==
    cube_path_expand([l EXCEPT !.frontier = Tail(@)], Head(l.frontier), 1, obstacles)

\* A faulty cube_path_back: the path is not reversed.
RECURSIVE cube_path_back_unreversed(_, _, _)
cube_path_back_unreversed(came_from, start, current) ==
    IF current = start THEN <<start>>
    ELSE <<current>> \o cube_path_back_unreversed(came_from, start, came_from[current])

\* The walk back from current to start; the code appends and reverses.
RECURSIVE cube_path_back(_, _, _)
cube_path_back(came_from, start, current) ==
    IF current = start THEN <<start>>
    ELSE Append(cube_path_back(came_from, start, came_from[current]), current)

\* What cube_path returns once its loop has ended with the locals l.
cube_path_result(l, start, goal) ==
    IF goal \notin DOMAIN l.came_from THEN None
    ELSE cube_path_back(l.came_from, start, goal)

\* The hex about to be dequeued lies beyond the horizon.
BeyondHorizon(l, start) ==
    /\ l.frontier # <<>>
    /\ cube_distance(start, Head(l.frontier)) > MaxHorizon

\* The loop of cube_path run from the locals l until it ends or leaves the
\* horizon.
RECURSIVE cube_path_loop(_, _, _, _)
cube_path_loop(l, start, goal, obstacles) ==
    IF l.frontier = <<>> \/ Head(l.frontier) = goal \/ BeyondHorizon(l, start)
    THEN l
    ELSE cube_path_loop(cube_path_iteration(l, obstacles), start, goal, obstacles)

\* cube_path does not return: its loop leaves the horizon.
cube_path_diverges(start, goal, obstacles) ==
    LET l == cube_path_loop(cube_path_locals(start), start, goal, obstacles)
    IN  l.frontier # <<>> /\ Head(l.frontier) # goal

cube_path(start, goal, obstacles) ==
    cube_path_result(cube_path_loop(cube_path_locals(start), start, goal, obstacles),
                     start, goal)

(***************************************************************************)
(* Offset versions of the algorithms.  Each converts its arguments to cube *)
(* by the scheme of offset_type, calls the cube function and converts the  *)
(* result back; an unrecognized offset_type reaches the final else.        *)
(***************************************************************************)
\* The else branch: raise ValueError("Invalid offset type").
offset_type_raises(offset_type) == offset_type \notin OffsetTypes

offset_distance(a, b, offset_type) ==
    cube_distance(offsetToCube(offset_type, a), offsetToCube(offset_type, b))

offset_neighbor(hex, direction, offset_type) ==
    cubeToOffset(offset_type, cube_neighbor(offsetToCube(offset_type, hex), direction))

\* [cube_to_...(hex) for hex in cubes]
OffsetList(offset_type, cubes) ==
    [i \in 1..Len(cubes) |-> cubeToOffset(offset_type, cubes[i])]

offset_ring(center, radius, offset_type) ==
    OffsetList(offset_type, cube_ring(offsetToCube(offset_type, center), radius))

offset_spiral(center, radius, offset_type) ==
    OffsetList(offset_type, cube_spiral(offsetToCube(offset_type, center), radius))

offset_line(a, b, offset_type) ==
    OffsetList(offset_type,
               cube_line(offsetToCube(offset_type, a), offsetToCube(offset_type, b)))

\* {..._to_cube(hex) for hex in obstacles}
CubeSet(offset_type, offsets) == {offsetToCube(offset_type, hex) : hex \in offsets}

offset_visible(center, radius, obstacles, offset_type) ==
    {cubeToOffset(offset_type, hex) :
        hex \in cube_visible(offsetToCube(offset_type, center), radius,
                             CubeSet(offset_type, obstacles))}

offset_path(start, goal, obstacles, offset_type) ==
    LET path == cube_path(offsetToCube(offset_type, start),
                          offsetToCube(offset_type, goal),
                          CubeSet(offset_type, obstacles))
    IN  IF path = None THEN None ELSE OffsetList(offset_type, path)

(***************************************************************************)
(* Map generation and pixels.  A pixel coordinate is a pair <<a, b>> that  *)
(* stands for the real number (a + b * sqrt(3)) / 2: the entries of the    *)
(* two layout matrices and the corner angles (multiples of 30 degrees) are *)
(* of this form.  The floats of the code approximate these numbers.        *)
(***************************************************************************)
\* offset_type is accepted and never looked at.
generate_rectangular_map(width, height, offset_type) ==
    (0..(width - 1)) \X (0..(height - 1))

\* if layout == 'pointy': LAYOUT_POINTY, else: LAYOUT_FLAT
Orientation(layout) == IF layout = "pointy" THEN "LAYOUT_POINTY" ELSE "LAYOUT_FLAT"

hex_to_pixel(hex, size, layout) ==
    IF Orientation(layout) = "LAYOUT_POINTY"
    THEN << <<0, (2 * hex[1] + hex[2]) * size>>, <<3 * hex[2] * size, 0>> >>
    ELSE << <<3 * hex[1] * size, 0>>, <<0, (hex[1] + 2 * hex[2]) * size>> >>

\* q and r before rounding, each as <<a, b>> for (a + b * sqrt(3)) / (6 * size).
PixelFraction(point, layout) ==
    LET x == point[1]
        y == point[2]
    IN  IF Orientation(layout) = "LAYOUT_POINTY"
        THEN << <<3 * x[2] - y[1], x[1] - y[2]>>, <<2 * y[1], 2 * y[2]>> >>
        ELSE << <<2 * x[1], 2 * x[2]>>, <<3 * y[2] - x[1], y[1] - x[2]>> >>

\* For a point whose q and r are rational (no sqrt(3) part).
pixel_to_hex(point, size, layout) ==
    LET q == PixelFraction(point, layout)[1][1]
        r == PixelFraction(point, layout)[2][1]
    IN  cube_round(<<q, r, -q - r>>, 6 * size)

\* 2 * cos(k * 30 degrees) as <<a, b>>.
CosTable ==
    << <<2, 0>>, <<0, 1>>, <<1, 0>>, <<0, 0>>, <<-1, 0>>, <<0, -1>>,
       <<-2, 0>>, <<0, -1>>, <<-1, 0>>, <<0, 0>>, <<1, 0>>, <<0, 1>> >>

Cos30(k) == CosTable[(k % 12) + 1]

Sin30(k) == Cos30(k - 3)

\* angle_deg = 60 * corner + (30 if layout == 'pointy' else 0), in units of
\* 30 degrees.
CornerAngle(corner, layout) == 2 * corner + (IF layout = "pointy" THEN 1 ELSE 0)

hex_corner_offset(corner, size, layout) ==
    LET k == CornerAngle(corner, layout)
    IN  << <<size * Cos30(k)[1], size * Cos30(k)[2]>>,
           <<size * Sin30(k)[1], size * Sin30(k)[2]>> >>

(***************************************************************************)
(* The caller.  A behaviour is one call: the initial state holds the       *)
(* function and the arguments chosen (pc = "call"), the action of that     *)
(* function runs it and records what it returned, or the exception it      *)
(* raised (pc = "return").                                                 *)
(***************************************************************************)
Pending(name, arguments) ==
    /\ pc = "call"
    /\ op = name
    /\ args = arguments
    /\ res = <<>>
    /\ err = "none"
    /\ loc = <<>>

\* The subsets of S with at most n elements.
RECURSIVE SubsetsUpTo(_, _)
SubsetsUpTo(S, n) ==
    IF n = 0
    THEN {{}}
    ELSE LET smaller == SubsetsUpTo(S, n - 1)
         IN  smaller \cup {T \cup {x} : T \in smaller, x \in S}

\* Obstacle sets of at most MaxObstacles hexes within the radius.
ObstacleSets(center, radius) ==
    SubsetsUpTo(SeqToSet(cube_spiral(center, radius)), MaxObstacles)

\* Calls of the conversions, arithmetic, distance and neighbours.
InitCoord ==
    \/ \E x \in Pairs : Pending("axial_to_cube", <<x>>)
    \/ \E h \in Hexes : Pending("cube_to_axial", <<h>>)
    \/ \E t \in OffsetTypes, x \in Pairs : Pending("offset_to_cube", <<t, x>>)
    \/ \E t \in OffsetTypes, h \in Hexes : Pending("cube_to_offset", <<t, h>>)
    \/ \E a, b \in Hexes : Pending("cube_add", <<a, b>>)
    \/ \E a, b \in Hexes : Pending("cube_subtract", <<a, b>>)
    \/ \E h \in Hexes, k \in Factors : Pending("cube_scale", <<h, k>>)
    \/ \E h \in Hexes : Pending("cube_rotate_left", <<h>>)
    \/ \E h \in Hexes : Pending("cube_rotate_right", <<h>>)
    \/ \E a, b \in Hexes : Pending("cube_distance", <<a, b>>)
    \/ \E h \in Hexes, d \in Dirs : Pending("cube_neighbor", <<h, d>>)

\* Calls of the rings and spirals.
InitRange ==
    \/ \E c \in Hexes, k \in Radii : Pending("cube_ring", <<c, k>>)
    \/ \E c \in Hexes, k \in Radii : Pending("cube_spiral", <<c, k>>)

\* Calls of the interpolation, rounding and lines.
InitLine ==
    \/ \E a, b \in Hexes, td \in 1..MaxSteps, nudged \in BOOLEAN :
          \E tn \in 0..td :
              Pending("cube_lerp", <<a, b, tn, td, nudged>>)
    \* Fractions over a power of two are exact as floats, so the float
    \* arithmetic of cube_round and the exact arithmetic here agree.
    \/ \E e \in 0..MaxDenExp :
          \E nq, nr \in (-MaxCoord * Pow2(e))..(MaxCoord * Pow2(e)) :
              Pending("cube_round", <<<<nq, nr, -nq - nr>>, Pow2(e)>>)
    \/ \E a, b \in Hexes : Pending("cube_line", <<a, b>>)

\* Calls of the field of view.
InitFov ==
    \/ \E c \in FovCenters, k \in FovRadii :
          \E O \in ObstacleSets(c, k) :
              Pending("cube_visible", <<c, k, O>>)

\* The hexes within distance k of center.
Disc(center, k) == SeqToSet(cube_spiral(center, k))

\* Obstacles of a search: a few hexes near start, or the six neighbours of
\* start, or the six neighbours of the goal.
SearchObstacleSets(start) ==
    SubsetsUpTo(Disc(start, MaxSearchObstacleDist), MaxSearchObstacles)

Enclosures(start, goal) ==
    {SeqToSet(cube_ring(start, 1)), SeqToSet(cube_ring(goal, 1))}

\* Goal sets of the searches with obstacles or a limit: none, the start, a
\* neighbour, and two hexes at different distances.
SearchGoalSets ==
    { {}, {<<0, 0, 0>>}, {<<1, -1, 0>>}, {<<2, -1, -1>>, <<-1, 1, 0>>} }

\* Calls of cube_path.
InitPath ==
    \/ \E start \in SearchStarts :
          \E goal \in Disc(start, MaxGoalDist) :
              \E obstacles \in SearchObstacleSets(start) \cup Enclosures(start, goal) :
                  Pending("cube_path", <<start, goal, obstacles>>)

\* Calls of cube_bfs: any goals on the free grid without a limit, and
\* chosen goal sets with obstacles and limits.
InitBfs ==
    \/ \E start \in SearchStarts :
          \E goals \in SubsetsUpTo(Disc(start, MaxGoalDist), MaxGoals) :
              Pending("cube_bfs", <<start, goals, {}, None>>)
    \/ \E start \in SearchStarts, goals \in SearchGoalSets, max_distance \in Limits :
          \E obstacles \in SearchObstacleSets(start) :
              Pending("cube_bfs", <<start, goals, obstacles, max_distance>>)

\* Calls of the offset versions, with recognized and unrecognized scheme
\* tags.  The goal of offset_path is drawn within MaxGoalDist of the start.
InitOffset ==
    \/ \E a, b \in Pairs, offset_type \in OffsetSelectors :
          Pending("offset_distance", <<a, b, offset_type>>)
    \/ \E hex \in Pairs, direction \in Dirs, offset_type \in OffsetSelectors :
          Pending("offset_neighbor", <<hex, direction, offset_type>>)
    \/ \E center \in Pairs, radius \in Radii, offset_type \in OffsetSelectors :
          Pending("offset_ring", <<center, radius, offset_type>>)
    \/ \E center \in Pairs, radius \in Radii, offset_type \in OffsetSelectors :
          Pending("offset_spiral", <<center, radius, offset_type>>)
    \/ \E a \in OffsetOrigins, b \in Pairs, offset_type \in OffsetSelectors :
          Pending("offset_line", <<a, b, offset_type>>)
    \/ \E center \in OffsetOrigins, radius \in FovRadii, offset_type \in OffsetSelectors :
          \E obstacles \in OffsetObstacleSets :
              Pending("offset_visible", <<center, radius, obstacles, offset_type>>)
    \/ \E start \in OffsetOrigins, goal \in Pairs, offset_type \in OffsetSelectors :
          \E obstacles \in OffsetObstacleSets :
              /\ offset_type \in OffsetTypes => offset_distance(start, goal, offset_type) <= MaxGoalDist
              /\ Pending("offset_path", <<start, goal, obstacles, offset_type>>)

\* Calls of the map generator and the pixel functions, with recognized and
\* unrecognized selectors.  The points given to pixel_to_hex are hex
\* centres of the layout the call uses.
InitPixel ==
    \/ \E width, height \in 0..MaxSteps, offset_type \in OffsetSelectors :
          Pending("generate_rectangular_map", <<width, height, offset_type>>)
    \/ \E hex \in Hexes, size \in Sizes, layout \in LayoutSelectors :
          Pending("hex_to_pixel", <<hex, size, layout>>)
    \/ \E hex \in Hexes, size \in Sizes, layout \in LayoutSelectors :
          Pending("pixel_to_hex", <<hex_to_pixel(hex, size, layout), size, layout>>)
    \/ \E corner \in Dirs, size \in Sizes, layout \in LayoutSelectors :
          Pending("hex_corner_offset", <<corner, size, layout>>)

InitSelect ==
    \/ InitOffset
    \/ InitPixel

Init ==
    \/ InitCoord
    \/ InitRange
    \/ InitLine
    \/ InitFov
    \/ InitPath
    \/ InitBfs
    \/ InitOffset
    \/ InitPixel

CallAxialToCube ==
    /\ pc = "call"
    /\ op = "axial_to_cube"
    /\ pc' = "return"
    /\ res' = axial_to_cube(args[1])
    /\ err' = "none"
    /\ UNCHANGED <<op, args, loc>>

CallCubeToAxial ==
    /\ pc = "call"
    /\ op = "cube_to_axial"
    /\ pc' = "return"
    /\ res' = cube_to_axial(args[1])
    /\ err' = "none"
    /\ UNCHANGED <<op, args, loc>>

CallOffsetToCube ==
    /\ pc = "call"
    /\ op = "offset_to_cube"
    /\ pc' = "return"
    /\ res' = offsetToCube(args[1], args[2])
    /\ err' = "none"
    /\ UNCHANGED <<op, args, loc>>

CallCubeToOffset ==
    /\ pc = "call"
    /\ op = "cube_to_offset"
    /\ pc' = "return"
    /\ res' = cubeToOffset(args[1], args[2])
    /\ err' = "none"
    /\ UNCHANGED <<op, args, loc>>

CallCubeAdd ==
    /\ pc = "call"
    /\ op = "cube_add"
    /\ pc' = "return"
    /\ res' = cube_add(args[1], args[2])
    /\ err' = "none"
    /\ UNCHANGED <<op, args, loc>>

CallCubeSubtract ==
    /\ pc = "call"
    /\ op = "cube_subtract"
    /\ pc' = "return"
    /\ res' = cube_subtract(args[1], args[2])
    /\ err' = "none"
    /\ UNCHANGED <<op, args, loc>>

CallCubeScale ==
    /\ pc = "call"
    /\ op = "cube_scale"
    /\ pc' = "return"
    /\ res' = cube_scale(args[1], args[2])
    /\ err' = "none"
    /\ UNCHANGED <<op, args, loc>>

CallCubeRotateLeft ==
    /\ pc = "call"
    /\ op = "cube_rotate_left"
    /\ pc' = "return"
    /\ res' = cube_rotate_left(args[1])
    /\ err' = "none"
    /\ UNCHANGED <<op, args, loc>>

CallCubeRotateRight ==
    /\ pc = "call"
    /\ op = "cube_rotate_right"
    /\ pc' = "return"
    /\ res' = cube_rotate_right(args[1])
    /\ err' = "none"
    /\ UNCHANGED <<op, args, loc>>

CallCubeDistance ==
    /\ pc = "call"
    /\ op = "cube_distance"
    /\ pc' = "return"
    /\ res' = cube_distance(args[1], args[2])
    /\ err' = "none"
    /\ UNCHANGED <<op, args, loc>>

CallCubeNeighbor ==
    /\ pc = "call"
    /\ op = "cube_neighbor"
    /\ pc' = "return"
    /\ res' = cube_neighbor(args[1], args[2])
    /\ err' = "none"
    /\ UNCHANGED <<op, args, loc>>

NextCoord ==
    \/ CallAxialToCube
    \/ CallCubeToAxial
    \/ CallOffsetToCube
    \/ CallCubeToOffset
    \/ CallCubeAdd
    \/ CallCubeSubtract
    \/ CallCubeScale
    \/ CallCubeRotateLeft
    \/ CallCubeRotateRight
    \/ CallCubeDistance
    \/ CallCubeNeighbor

SpecCoord == InitCoord /\ [][NextCoord]_vars

CallCubeRing ==
    /\ pc = "call"
    /\ op = "cube_ring"
    /\ pc' = "return"
    /\ res' = cube_ring(args[1], args[2])
    /\ err' = "none"
    /\ UNCHANGED <<op, args, loc>>

CallCubeSpiral ==
    /\ pc = "call"
    /\ op = "cube_spiral"
    /\ pc' = "return"
    /\ res' = cube_spiral(args[1], args[2])
    /\ err' = "none"
    /\ UNCHANGED <<op, args, loc>>

NextRange ==
    \/ CallCubeRing
    \/ CallCubeSpiral

SpecRange == InitRange /\ [][NextRange]_vars

\* cube_lerp at t = args[3] / args[4], on the nudged endpoints as cube_line
\* calls it (args[5]) or on the integer endpoints themselves.
CallCubeLerp ==
    /\ pc = "call"
    /\ op = "cube_lerp"
    /\ pc' = "return"
    /\ res' = IF args[5]
                THEN cube_lerp(Nudge(args[1]), Nudge(args[2]), args[3], args[4], Scale)
                ELSE cube_lerp(Exact(args[1]), Exact(args[2]), args[3], args[4], Scale)
    /\ err' = "none"
    /\ UNCHANGED <<op, args, loc>>

\* cube_round on the fractional hex args[1] over the denominator args[2].
CallCubeRound ==
    /\ pc = "call"
    /\ op = "cube_round"
    /\ pc' = "return"
    /\ res' = cube_round(args[1], args[2])
    /\ err' = "none"
    /\ UNCHANGED <<op, args, loc>>

CallCubeLine ==
    /\ pc = "call"
    /\ op = "cube_line"
    /\ pc' = "return"
    /\ IF cube_line_raises(args[1], args[2])
       THEN /\ res' = <<>>
            /\ err' = "ZeroDivisionError"
       ELSE /\ res' = cube_line(args[1], args[2])
            /\ err' = "none"
    /\ UNCHANGED <<op, args, loc>>

NextLine ==
    \/ CallCubeLerp
    \/ CallCubeRound
    \/ CallCubeLine

SpecLine == InitLine /\ [][NextLine]_vars

CallCubeVisible ==
    /\ pc = "call"
    /\ op = "cube_visible"
    /\ pc' = "return"
    /\ IF cube_visible_raises(args[1], args[2])
       THEN /\ res' = <<>>
            /\ err' = "ZeroDivisionError"
       ELSE /\ res' = cube_visible(args[1], args[2], args[3])
            /\ err' = "none"
    /\ UNCHANGED <<op, args, loc>>

NextFov ==
    \/ CallCubeVisible

SpecFov == InitFov /\ [][NextFov]_vars

\* cube_path(start, goal, obstacles) up to its while loop.
CallCubePath ==
    /\ pc = "call"
    /\ op = "cube_path"
    /\ pc' = "loop"
    /\ loc' = cube_path_locals(args[1])
    /\ UNCHANGED <<op, args, res, err>>

\* One iteration of the loop of cube_path; dequeuing the goal breaks out of
\* the loop and the path is walked back.
CubePathIteration ==
    /\ pc = "loop"
    /\ op = "cube_path"
    /\ loc.frontier # <<>>
    /\ ~BeyondHorizon(loc, args[1])
    /\ IF Head(loc.frontier) = args[2]
       THEN /\ loc' = [loc EXCEPT !.frontier = Tail(@)]
            /\ pc' = "return"
            /\ res' = cube_path_result(loc, args[1], args[2])
       ELSE /\ loc' = cube_path_iteration(loc, args[3])
            /\ pc' = "loop"
            /\ res' = res
    /\ UNCHANGED <<op, args, err>>

\* The frontier of cube_path is empty: the loop ends.
CubePathExhausted ==
    /\ pc = "loop"
    /\ op = "cube_path"
    /\ loc.frontier = <<>>
    /\ pc' = "return"
    /\ res' = cube_path_result(loc, args[1], args[2])
    /\ UNCHANGED <<op, args, err, loc>>

NextPath ==
    \/ CallCubePath
    \/ CubePathIteration
    \/ CubePathExhausted

\* cube_bfs(start, goals, obstacles, max_distance) up to its while loop.
CallCubeBfs ==
    /\ pc = "call"
    /\ op = "cube_bfs"
    /\ pc' = "loop"
    /\ loc' = cube_bfs_locals(args[1])
    /\ UNCHANGED <<op, args, res, err>>

\* One iteration of the loop of cube_bfs; dequeuing the last goal breaks
\* out of the loop before the neighbours are looked at.
CubeBfsIteration ==
    /\ pc = "loop"
    /\ op = "cube_bfs"
    /\ loc.frontier # <<>>
    /\ ~BeyondHorizon(loc, args[1])
    /\ IF cube_bfs_breaks(loc, args[2])
       THEN /\ loc' = cube_bfs_dequeue(loc, args[2])
            /\ pc' = "return"
            /\ res' = loc.distance
       ELSE /\ loc' = cube_bfs_iteration(loc, args[2], args[3], args[4])
            /\ pc' = "loop"
            /\ res' = res
    /\ UNCHANGED <<op, args, err>>

\* The frontier of cube_bfs is empty: the loop ends.
CubeBfsExhausted ==
    /\ pc = "loop"
    /\ op = "cube_bfs"
    /\ loc.frontier = <<>>
    /\ pc' = "return"
    /\ res' = loc.distance
    /\ UNCHANGED <<op, args, err, loc>>

NextBfs ==
    \/ CallCubeBfs
    \/ CubeBfsIteration
    \/ CubeBfsExhausted

\* The two searches.
InitSearch ==
    \/ InitPath
    \/ InitBfs

NextSearch ==
    \/ NextPath
    \/ NextBfs

SpecSearch == InitSearch /\ [][NextSearch]_vars

CallOffsetDistance ==
    /\ pc = "call"
    /\ op = "offset_distance"
    /\ pc' = "return"
    /\ IF offset_type_raises(args[3])
       THEN /\ res' = <<>>
            /\ err' = "ValueError"
       ELSE /\ res' = offset_distance(args[1], args[2], args[3])
            /\ err' = "none"
    /\ UNCHANGED <<op, args, loc>>

CallOffsetNeighbor ==
    /\ pc = "call"
    /\ op = "offset_neighbor"
    /\ pc' = "return"
    /\ IF offset_type_raises(args[3])
       THEN /\ res' = <<>>
            /\ err' = "ValueError"
       ELSE /\ res' = offset_neighbor(args[1], args[2], args[3])
            /\ err' = "none"
    /\ UNCHANGED <<op, args, loc>>

CallOffsetRing ==
    /\ pc = "call"
    /\ op = "offset_ring"
    /\ pc' = "return"
    /\ IF offset_type_raises(args[3])
       THEN /\ res' = <<>>
            /\ err' = "ValueError"
       ELSE /\ res' = offset_ring(args[1], args[2], args[3])
            /\ err' = "none"
    /\ UNCHANGED <<op, args, loc>>

CallOffsetSpiral ==
    /\ pc = "call"
    /\ op = "offset_spiral"
    /\ pc' = "return"
    /\ IF offset_type_raises(args[3])
       THEN /\ res' = <<>>
            /\ err' = "ValueError"
       ELSE /\ res' = offset_spiral(args[1], args[2], args[3])
            /\ err' = "none"
    /\ UNCHANGED <<op, args, loc>>

\* A line from a hex to itself divides by zero in cube_line.
CallOffsetLine ==
    /\ pc = "call"
    /\ op = "offset_line"
    /\ pc' = "return"
    /\ IF offset_type_raises(args[3])
       THEN /\ res' = <<>>
            /\ err' = "ValueError"
       ELSE IF cube_line_raises(offsetToCube(args[3], args[1]), offsetToCube(args[3], args[2]))
       THEN /\ res' = <<>>
            /\ err' = "ZeroDivisionError"
       ELSE /\ res' = offset_line(args[1], args[2], args[3])
            /\ err' = "none"
    /\ UNCHANGED <<op, args, loc>>

CallOffsetVisible ==
    /\ pc = "call"
    /\ op = "offset_visible"
    /\ pc' = "return"
    /\ IF offset_type_raises(args[4])
       THEN /\ res' = <<>>
            /\ err' = "ValueError"
       ELSE IF cube_visible_raises(offsetToCube(args[4], args[1]), args[2])
       THEN /\ res' = <<>>
            /\ err' = "ZeroDivisionError"
       ELSE /\ res' = offset_visible(args[1], args[2], args[3], args[4])
            /\ err' = "none"
    /\ UNCHANGED <<op, args, loc>>

\* offset_path returns when the search of cube_path ends.
CallOffsetPath ==
    /\ pc = "call"
    /\ op = "offset_path"
    /\ IF offset_type_raises(args[4]) THEN TRUE
       ELSE ~cube_path_diverges(offsetToCube(args[4], args[1]),
                                offsetToCube(args[4], args[2]),
                                CubeSet(args[4], args[3]))
    /\ pc' = "return"
    /\ IF offset_type_raises(args[4])
       THEN /\ res' = <<>>
            /\ err' = "ValueError"
       ELSE /\ res' = offset_path(args[1], args[2], args[3], args[4])
            /\ err' = "none"
    /\ UNCHANGED <<op, args, loc>>

NextOffset ==
    \/ CallOffsetDistance
    \/ CallOffsetNeighbor
    \/ CallOffsetRing
    \/ CallOffsetSpiral
    \/ CallOffsetLine
    \/ CallOffsetVisible
    \/ CallOffsetPath

CallGenerateRectangularMap ==
    /\ pc = "call"
    /\ op = "generate_rectangular_map"
    /\ pc' = "return"
    /\ res' = generate_rectangular_map(args[1], args[2], args[3])
    /\ err' = "none"
    /\ UNCHANGED <<op, args, loc>>

CallHexToPixel ==
    /\ pc = "call"
    /\ op = "hex_to_pixel"
    /\ pc' = "return"
    /\ res' = hex_to_pixel(args[1], args[2], args[3])
    /\ err' = "none"
    /\ UNCHANGED <<op, args, loc>>

CallPixelToHex ==
    /\ pc = "call"
    /\ op = "pixel_to_hex"
    /\ pc' = "return"
    /\ res' = pixel_to_hex(args[1], args[2], args[3])
    /\ err' = "none"
    /\ UNCHANGED <<op, args, loc>>

CallHexCornerOffset ==
    /\ pc = "call"
    /\ op = "hex_corner_offset"
    /\ pc' = "return"
    /\ res' = hex_corner_offset(args[1], args[2], args[3])
    /\ err' = "none"
    /\ UNCHANGED <<op, args, loc>>

NextPixel ==
    \/ CallGenerateRectangularMap
    \/ CallHexToPixel
    \/ CallPixelToHex
    \/ CallHexCornerOffset

\* The functions that take a scheme tag or a layout name.
NextSelect ==
    \/ NextOffset
    \/ NextPixel

SpecSelect == InitSelect /\ [][NextSelect]_vars

Next ==
    \/ NextCoord
    \/ NextRange
    \/ NextLine
    \/ NextFov
    \/ NextPath
    \/ NextBfs
    \/ NextOffset
    \/ NextPixel

Spec == Init /\ [][Next]_vars

(***************************************************************************)
(* Properties.                                                             *)
(***************************************************************************)
\* The call of name has returned or raised.
Done(name) == pc = "return" /\ op = name

ZeroSum(h) == h[1] + h[2] + h[3] = 0

Distinct(seq) == \A i, j \in 1..Len(seq) : i # j => seq[i] # seq[j]

\* Every hex at exactly (at most) distance k from center.  A hex at distance
\* k from a center in Hexes has no coordinate beyond MaxCoord + k.
AtDistance(center, k) ==
    {h \in HexBox(MaxCoord + k) : cube_distance(center, h) = k}
WithinDistance(center, k) ==
    {h \in HexBox(MaxCoord + k) : cube_distance(center, h) <= k}

\* C1: each conversion pair is mutually inverse, negative coordinates
\* included: converting the result of a conversion back gives its argument,
\* for the four offset schemes and for axial, in both directions.
RoundTrip ==
    /\ Done("cube_to_offset") => offsetToCube(args[1], res) = args[2]
    /\ Done("offset_to_cube") => cubeToOffset(args[1], res) = args[2]
    /\ Done("cube_to_axial") => axial_to_cube(res) = args[1]
    /\ Done("axial_to_cube") => cube_to_axial(res) = args[1]

\* An odd negative row under odd-r, where the half-shift moves the column.
RoundTripWitness ==
    /\ Done("cube_to_offset")
    /\ args[1] = "odd-r"
    /\ args[2][2] = -1
    /\ args[2][1] < 0
    /\ res[1] # args[2][1]
    /\ offsetToCube(args[1], res) = args[2]

\* C2: every cube hex a core operation produces from zero-sum arguments is
\* zero-sum: conversions to cube, arithmetic, rotation, neighbour, ring,
\* spiral, the interpolation step, the line, rounding and the visible set.
\* (The keys and path elements of cube_bfs and cube_path are results of
\* cube_neighbor.)
AllZeroSum ==
    /\ pc = "return" /\ op \in {"axial_to_cube", "offset_to_cube", "cube_add", "cube_subtract",
               "cube_scale", "cube_rotate_left", "cube_rotate_right",
               "cube_neighbor", "cube_lerp", "cube_round"}
          => ZeroSum(res)
    /\ pc = "return" /\ op \in {"cube_ring", "cube_spiral", "cube_line"} /\ err = "none"
          => \A i \in 1..Len(res) : ZeroSum(res[i])
    /\ Done("cube_visible") /\ err = "none"
          => \A h \in res : ZeroSum(h)

\* C3: cube_distance is a metric on zero-sum hexes, and the sum it halves is
\* even, so the result is an exact non-negative integer.
DistanceIsMetric ==
    Done("cube_distance") =>
        LET a == args[1]
            b == args[2]
        IN  /\ res = cube_distance(b, a)
            /\ a = b => res = 0
            /\ \A c \in Hexes : res <= cube_distance(a, c) + cube_distance(c, b)
            /\ AbsDeltaSum(a, b) % 2 = 0
            /\ 2 * res = AbsDeltaSum(a, b)
            /\ res >= 0

DistanceWitness ==
    /\ Done("cube_distance")
    /\ args[1] # args[2]
    /\ res = 2 * MaxCoord
    /\ \E c \in Hexes : c # args[1] /\ c # args[2]
                        /\ res = cube_distance(args[1], c) + cube_distance(c, args[2])

\* C4: for every integer direction d, also outside 0..5, the neighbour's
\* neighbour in direction (d + 3) mod 6 is the hex itself, and the neighbour
\* is at distance exactly 1.
NeighborInverse ==
    Done("cube_neighbor") =>
        /\ cube_neighbor(res, (args[2] + 3) % 6) = args[1]
        /\ cube_distance(args[1], res) = 1

NeighborWitness ==
    /\ Done("cube_neighbor")
    /\ args[2] = -1
    /\ res = cube_add(args[1], CUBE_DIRECTIONS[5 + 1])

\* C5: six left rotations are the identity, and left and right rotation
\* undo each other.
RotateLeft5(h) ==
    cube_rotate_left(cube_rotate_left(cube_rotate_left(cube_rotate_left(
        cube_rotate_left(h)))))

RotationClosure ==
    /\ Done("cube_rotate_left") =>
          /\ RotateLeft5(res) = args[1]
          /\ cube_rotate_right(res) = args[1]
    /\ Done("cube_rotate_right") => cube_rotate_left(res) = args[1]

RotationWitness ==
    /\ Done("cube_rotate_left")
    /\ args[1] = <<1, -MaxCoord, MaxCoord - 1>>
    /\ res # args[1]
    /\ RotateLeft5(res) = args[1]

\* C6: cube_ring(center, 0) is <<center>>; for k > 0 the ring starts at
\* center + CUBE_DIRECTIONS[4] * k, has 6k pairwise distinct hexes, which are
\* exactly the hexes at distance k from center, and consecutive hexes
\* (cyclically) are adjacent.
RingExact ==
    Done("cube_ring") =>
        LET center == args[1]
            k == args[2]
        IN  /\ k = 0 => res = <<center>>
            /\ k > 0 =>
                  /\ res[1] = cube_add(center, cube_scale(CUBE_DIRECTIONS[4 + 1], k))
                  /\ Len(res) = 6 * k
                  /\ Distinct(res)
                  /\ SeqToSet(res) = AtDistance(center, k)
                  /\ \A i \in 1..Len(res) :
                        cube_distance(res[i], res[(i % Len(res)) + 1]) = 1

RingWitness ==
    /\ Done("cube_ring")
    /\ args[2] = MaxRadius
    /\ args[1] # <<0, 0, 0>>
    /\ Len(res) = 6 * MaxRadius

\* C7: cube_spiral(center, k) has 3k^2 + 3k + 1 pairwise distinct hexes,
\* which are the union of the rings 0..k and exactly the hexes within
\* distance k, and the distance from center never decreases along it.
SpiralExact ==
    Done("cube_spiral") =>
        LET center == args[1]
            k == args[2]
        IN  /\ Len(res) = 3 * k * k + 3 * k + 1
            /\ Distinct(res)
            /\ SeqToSet(res) = UNION {SeqToSet(cube_ring(center, j)) : j \in 0..k}
            /\ SeqToSet(res) = WithinDistance(center, k)
            /\ \A i \in 1..(Len(res) - 1) :
                  cube_distance(center, res[i]) <= cube_distance(center, res[i + 1])

SpiralWitness ==
    /\ Done("cube_spiral")
    /\ args[2] = MaxRadius
    /\ args[1] # <<0, 0, 0>>
    /\ cube_distance(args[1], res[Len(res)]) = MaxRadius

\* C8: the line from a hex to itself returns the one-element result <<a>>
\* as a normal value; it does not fail.
LineOfOnePoint ==
    Done("cube_line") /\ args[1] = args[2] =>
        /\ err = "none"
        /\ res = <<args[1]>>

\* C9: for a # b the line starts at a, ends at b, and consecutive samples
\* are at distance exactly 1 (none repeated, none skipped).
LineConnected ==
    Done("cube_line") /\ args[1] # args[2] =>
        /\ err = "none"
        /\ res[1] = args[1]
        /\ res[Len(res)] = args[2]
        /\ \A i \in 1..(Len(res) - 1) : cube_distance(res[i], res[i + 1]) = 1

\* C10: for fixed center and radius, the set visible with obstacles O is
\* contained in the set visible with any subset of O.
FovMonotone ==
    Done("cube_visible") /\ err = "none" =>
        \A O2 \in SUBSET args[3] :
            res \subseteq cube_visible(args[1], args[2], O2)

\* Two obstacles, each hiding something, and a hex hidden behind an obstacle.
FovWitness ==
    /\ Done("cube_visible")
    /\ err = "none"
    /\ args[2] = MaxFovRadius
    /\ Cardinality(args[3]) = 2
    /\ \A o \in args[3] : cube_visible(args[1], args[2], args[3] \ {o}) # res
    /\ \E h \in cube_visible(args[1], args[2], {}) : h \notin res /\ h \notin args[3]

\* C11: with center (0,0,0), radius 2 and the single obstacle (1,-1,0), the
\* visible set leaves out (1,-1,0) and every hex within distance 2 whose line
\* from the center passes through (1,-1,0), (2,-2,0) among them, and holds
\* every other hex within distance 2.
OneObstacleScenario ==
    /\ Done("cube_visible")
    /\ args = << <<0, 0, 0>>, 2, {<<1, -1, 0>>} >>

OneObstacleFov ==
    OneObstacleScenario =>
        /\ err = "none"
        /\ <<1, -1, 0>> \notin res
        /\ <<2, -2, 0>> \notin res
        /\ \A h \in WithinDistance(<<0, 0, 0>>, 2) \ {<<0, 0, 0>>} :
              h \in res <=> <<1, -1, 0>> \notin SeqToSet(cube_line(<<0, 0, 0>>, h))
        /\ <<0, 0, 0>> \in res
        /\ res \subseteq WithinDistance(<<0, 0, 0>>, 2)

\* The scenario hides three hexes: the obstacle, the hex behind it, and
\* (1,-2,1), whose line is nudged through the obstacle.
OneObstacleWitness ==
    /\ OneObstacleScenario
    /\ WithinDistance(<<0, 0, 0>>, 2) \ res = {<<1, -1, 0>>, <<2, -2, 0>>, <<1, -2, 1>>}

\* C20: the visible set is exactly the center together with every hex h at
\* distance 1..radius from it such that no sample of cube_line(center, h),
\* h included, is an obstacle.  So an obstacle other than the center is
\* never visible, an obstacle on the line hides h whatever other routes
\* exist, and the result lies within the radius.
FovExact ==
    Done("cube_visible") /\ err = "none" =>
        LET center == args[1]
            radius == args[2]
            obstacles == args[3]
        IN  /\ res = {center} \cup
                     {h \in WithinDistance(center, radius) \ {center} :
                         SeqToSet(cube_line(center, h)) \cap obstacles = {}}
            /\ res \cap obstacles \subseteq {center}
            /\ res \subseteq WithinDistance(center, radius)

\* A free hex hidden by the obstacle on its line although it is adjacent to
\* a visible hex other than the center.
FovExactWitness ==
    /\ Done("cube_visible")
    /\ err = "none"
    /\ Cardinality(args[3]) = 1
    /\ \E h \in WithinDistance(args[1], args[2]) \ (res \cup args[3]) :
          \E n \in res : cube_distance(n, h) = 1 /\ n # args[1]

\* C17: for a fractional hex (q, r, s) with q + r + s = 0, cube_round
\* returns integers that sum to 0 and are the components rounded on their
\* own, except the one component chosen by precedence, which is minus the
\* sum of the other two: q when its rounding error strictly exceeds both
\* others, else r when its error strictly exceeds that of s, else s.
RoundedEach(frac, d) == <<PyRound(frac[1], d), PyRound(frac[2], d), PyRound(frac[3], d)>>

RoundError(frac, d, k) == Abs(RoundedEach(frac, d)[k] * d - frac[k])

Recomputed(frac, d) ==
    IF RoundError(frac, d, 1) > RoundError(frac, d, 2)
          /\ RoundError(frac, d, 1) > RoundError(frac, d, 3) THEN 1
    ELSE IF RoundError(frac, d, 2) > RoundError(frac, d, 3) THEN 2
    ELSE 3

RoundPrecedence ==
    Done("cube_round") /\ ZeroSum(args[1]) =>
        LET each == RoundedEach(args[1], args[2])
            k == Recomputed(args[1], args[2])
        IN  /\ ZeroSum(res)
            /\ \A j \in (1..3) \ {k} : res[j] = each[j]
            /\ \A j \in 1..3 : res[j] \in Int

\* A tie between the errors of q and r, both above that of s: r is the
\* component recomputed, and rounding each component alone would not sum to
\* zero.
RoundTieWitness ==
    /\ Done("cube_round")
    /\ ZeroSum(args[1])
    /\ RoundError(args[1], args[2], 1) = RoundError(args[1], args[2], 2)
    /\ RoundError(args[1], args[2], 1) > RoundError(args[1], args[2], 3)
    /\ ~ZeroSum(RoundedEach(args[1], args[2]))
    /\ res[2] # RoundedEach(args[1], args[2])[2]

\* A search has dequeued, or is about to dequeue, a hex beyond the horizon:
\* it has reached the endless free grid, and only dequeuing a goal can end
\* it.
LeftHorizon == pc = "loop" /\ BeyondHorizon(loc, args[1])

Adjacent(path) ==
    \A i \in 1..(Len(path) - 1) : cube_distance(path[i], path[i + 1]) = 1

\* C12 as stated: without obstacles cube_path ends with a path of
\* cube_distance(start, goal) + 1 hexes, and cube_bfs (no limit) ends with
\* every goal mapped to its cube_distance from start, for every goal set.
FreeGridAnyGoals ==
    /\ op = "cube_path" /\ args[3] = {} =>
          /\ ~LeftHorizon
          /\ pc = "return" => /\ res # None
                              /\ Len(res) = cube_distance(args[1], args[2]) + 1
    /\ op = "cube_bfs" /\ args[3] = {} /\ args[4] = None =>
          /\ ~LeftHorizon
          /\ pc = "return" =>
                \A g \in args[2] :
                    g \in DOMAIN res /\ res[g] = cube_distance(args[1], g)

\* C12, amended: the same, for cube_bfs with at least one goal.  (With no
\* goal and no limit the loop of cube_bfs has no exit on the free grid.)
FreeGrid ==
    /\ op = "cube_path" /\ args[3] = {} =>
          /\ ~LeftHorizon
          /\ pc = "return" => /\ res # None
                              /\ Len(res) = cube_distance(args[1], args[2]) + 1
    /\ op = "cube_bfs" /\ args[3] = {} /\ args[4] = None /\ args[2] # {} =>
          /\ ~LeftHorizon
          /\ pc = "return" =>
                \A g \in args[2] :
                    g \in DOMAIN res /\ res[g] = cube_distance(args[1], g)

\* Two goals at different distances, both found.
FreeGridWitness ==
    /\ Done("cube_bfs")
    /\ args[3] = {}
    /\ args[4] = None
    /\ \E g1, g2 \in args[2] : res[g1] = 1 /\ res[g2] = MaxGoalDist

\* C13 as stated: cube_path((0,0,0), (2,-2,0), {(1,-1,0)}) returns a path of
\* 3 hexes, start and goal included, without (1,-1,0).
DetourScenario ==
    /\ Done("cube_path")
    /\ args = << <<0, 0, 0>>, <<2, -2, 0>>, {<<1, -1, 0>>} >>

DetourOfThree ==
    DetourScenario =>
        /\ res # None
        /\ Len(res) = 3
        /\ <<1, -1, 0>> \notin SeqToSet(res)

\* C13, amended: the path returned has 4 hexes (3 steps), runs from start
\* to goal through adjacent hexes, and does not contain (1,-1,0).
DetourOfFour ==
    DetourScenario =>
        /\ res # None
        /\ Len(res) = 4
        /\ res[1] = args[1]
        /\ res[4] = args[2]
        /\ Adjacent(res)
        /\ <<1, -1, 0>> \notin SeqToSet(res)

DetourWitness ==
    /\ DetourScenario
    /\ res = << <<0, 0, 0>>, <<1, 0, -1>>, <<2, -1, -1>>, <<2, -2, 0>> >>

\* C14 as stated: when start is an obstacle, cube_path returns None.
ObstacleStartNone ==
    Done("cube_path") /\ args[1] \in args[3] => res = None

\* C14, amended: start is never tested against obstacles.  When start is an
\* obstacle cube_path returns what it returns with start taken out of
\* obstacles: None exactly when the goal was never discovered, and otherwise
\* a path from start to goal.
ObstacleStartIgnored ==
    Done("cube_path") /\ args[1] \in args[3] =>
        /\ res = cube_path(args[1], args[2], args[3] \ {args[1]})
        /\ res = None <=> args[2] \notin DOMAIN loc.came_from
        /\ res # None => /\ res[1] = args[1]
                         /\ res[Len(res)] = args[2]
                         /\ Adjacent(res)

\* A path of several hexes returned from a start that is an obstacle.
ObstacleStartWitness ==
    /\ Done("cube_path")
    /\ args[1] \in args[3]
    /\ res # None
    /\ Len(res) = MaxGoalDist + 1

\* The goal cannot be reached: it is an obstacle, or its six neighbours
\* are, or the six neighbours of start are.
Unreachable(start, goal, obstacles) ==
    /\ goal # start
    /\ \/ (goal \in obstacles /\ start \notin obstacles)
       \/ (SeqToSet(cube_ring(goal, 1)) \subseteq obstacles /\ start \notin obstacles)
       \/ SeqToSet(cube_ring(start, 1)) \subseteq obstacles

\* C15: when the goal is unreachable, cube_path ends and returns None,
\* whether the obstacles enclose the start or only the goal.
UnreachableEnds ==
    op = "cube_path" /\ Unreachable(args[1], args[2], args[3]) =>
        /\ ~LeftHorizon
        /\ pc = "return" => res = None /\ err = "none"

\* C18: with max_distance = m no distance above m is ever recorded, in the
\* locals or in the map returned; an iteration that dequeues a hex recorded
\* at distance m enqueues nothing; and with m = 0 the map returned is
\* exactly start at distance 0.
LimitKept ==
    op = "cube_bfs" /\ pc # "call" /\ args[4] # None =>
        /\ \A h \in DOMAIN loc.distance : loc.distance[h] <= args[4][1]
        /\ pc = "return" =>
              /\ \A h \in DOMAIN res : res[h] <= args[4][1]
              /\ args[4][1] = 0 => res = (args[1] :> 0)

LimitStopsExpansion ==
    (/\ op = "cube_bfs"
     /\ pc = "loop"
     /\ args[4] # None
     /\ loc.frontier # <<>>
     /\ loc.distance[Head(loc.frontier)] >= args[4][1])
    => /\ loc'.frontier = Tail(loc.frontier)
       /\ DOMAIN loc'.distance = DOMAIN loc.distance
       /\ DOMAIN loc'.came_from = DOMAIN loc.came_from

LimitRespected == [](LimitKept) /\ [][LimitStopsExpansion]_vars

\* A search with a limit that ran dry: hexes at the limit are in the map,
\* a goal one step beyond it is not.
LimitWitness ==
    /\ Done("cube_bfs")
    /\ args[4] = <<1>>
    /\ args[3] # {}
    /\ loc.frontier = <<>>
    /\ \E h \in DOMAIN res : res[h] = 1
    /\ \E g \in args[2] : g \notin DOMAIN res /\ cube_distance(args[1], g) = 2

\* C19: neither search ever enqueues an obstacle: at every step the
\* frontier and the keys of the distance and predecessor maps hold no
\* obstacle other than start, and so do the path and the map returned.
NoObstacleEntered ==
    op \in {"cube_path", "cube_bfs"} /\ pc # "call" =>
        /\ SeqToSet(loc.frontier) \cap args[3] \subseteq {args[1]}
        /\ DOMAIN loc.came_from \cap args[3] \subseteq {args[1]}
        /\ op = "cube_bfs" => DOMAIN loc.distance \cap args[3] \subseteq {args[1]}
        /\ Done("cube_bfs") => DOMAIN res \cap args[3] \subseteq {args[1]}
        /\ Done("cube_path") /\ res # None => SeqToSet(res) \cap args[3] \subseteq {args[1]}

\* A hex next to an obstacle has been expanded, and the obstacle is in no
\* map.
ObstacleWitness ==
    /\ op = "cube_bfs"
    /\ pc = "loop"
    /\ args[1] \notin args[3]
    /\ \E o \in args[3] :
          /\ o \notin DOMAIN loc.distance
          /\ \E h \in DOMAIN loc.distance \ SeqToSet(loc.frontier) :
                cube_distance(h, o) = 1

\* C16: every offset or pixel function called with an unrecognized scheme
\* tag or layout name raises an invalid-argument error (ValueError) and
\* returns nothing.
SelectorOf(arguments) == arguments[Len(arguments)]

UnknownSelectorRaises ==
    /\ /\ pc = "return"
       /\ op \in {"offset_distance", "offset_neighbor", "offset_ring", "offset_spiral",
                  "offset_line", "offset_visible", "offset_path",
                  "generate_rectangular_map"}
       /\ SelectorOf(args) \notin OffsetTypes
       => err = "ValueError"
    /\ /\ pc = "return"
       /\ op \in {"hex_to_pixel", "pixel_to_hex", "hex_corner_offset"}
       /\ SelectorOf(args) \notin Layouts
       => err = "ValueError"

\* C21 as stated: the center is always visible, and an obstacle on the
\* center changes nothing: the visible set is the one computed without it.
CenterObstacleHarmless ==
    Done("cube_visible") /\ err = "none" =>
        /\ args[1] \in res
        /\ args[1] \in args[3] =>
              res = cube_visible(args[1], args[2], args[3] \ {args[1]})

\* C21, amended: the center is always visible, also when it is an obstacle;
\* but the center is the first sample of every line, so an obstacle on it
\* blocks every other hex and the visible set is the center alone.
CenterObstacleBlinds ==
    Done("cube_visible") /\ err = "none" =>
        /\ args[1] \in res
        /\ args[1] \in args[3] => res = {args[1]}

\* The center is the only obstacle, and without it more would be seen.
CenterObstacleWitness ==
    /\ Done("cube_visible")
    /\ err = "none"
    /\ args[2] = MaxFovRadius
    /\ args[3] = {args[1]}
    /\ res = {args[1]}
    /\ Cardinality(cube_visible(args[1], args[2], {})) > 1

\* C22: cube_bfs stops in the iteration that dequeues the last goal not yet
\* found, and in no iteration before it, goals already enqueued or not; the
\* neighbours of that goal are not looked at.  When it has stopped this way
\* every goal is a key of the map returned, the hexes still in the frontier
\* are keys too, and the keys are exactly the hexes discovered so far.
StopsAtLastGoal ==
    op = "cube_bfs" /\ pc = "loop" /\ loc.frontier # <<>> =>
        /\ pc' = "return" <=>
              /\ Head(loc.frontier) \in args[2]
              /\ loc.found_goals \cup {Head(loc.frontier)} = args[2]
        /\ pc' = "return" =>
              /\ res' = loc.distance
              /\ loc'.distance = loc.distance
              /\ loc'.came_from = loc.came_from
              /\ loc'.frontier = Tail(loc.frontier)

\* The search ended by the break: every goal was dequeued.
EndedAtGoal == Done("cube_bfs") /\ args[2] # {} /\ loc.found_goals = args[2]

StoppedMap ==
    EndedAtGoal =>
        /\ args[2] \subseteq DOMAIN res
        /\ SeqToSet(loc.frontier) \subseteq DOMAIN res
        /\ DOMAIN res = DOMAIN loc.came_from
        /\ \A h \in DOMAIN res \ {args[1]} :
              loc.came_from[h] \in DOMAIN res \ SeqToSet(loc.frontier)

LastGoalStops == [](StoppedMap) /\ [][StopsAtLastGoal]_vars

\* Two goals, both dequeued; the search stopped with hexes left in the
\* frontier, and a free neighbour of a goal is not in the map.
LastGoalWitness ==
    /\ EndedAtGoal
    /\ Cardinality(args[2]) = 2
    /\ loc.frontier # <<>>
    /\ \E g \in args[2] :
          \E dir \in 1..6 :
              /\ cube_neighbors(g)[dir] \notin DOMAIN res
              /\ cube_neighbors(g)[dir] \notin args[3]

\* The interpolation of a and b (over d) at t = tn / td as real numbers:
\* the numerators over d * td, nothing rounded.
RealLerp(a, b, tn, td) ==
    << a[1] * td + (b[1] - a[1]) * tn,
       a[2] * td + (b[2] - a[2]) * tn,
       a[3] * td + (b[3] - a[3]) * tn >>

\* C23: for a # b at distance N, cube_line(a, b) has N + 1 samples, and
\* sample i is cube_round of the unrounded interpolation of the nudged
\* endpoints at t = i / N.
LineRoundsOnce ==
    Done("cube_line") /\ args[1] # args[2] =>
        LET N == cube_distance(args[1], args[2])
        IN  /\ err = "none"
            /\ Len(res) = N + 1
            /\ \A i \in 0..N :
                  res[i + 1] = cube_round(RealLerp(Nudge(args[1]), Nudge(args[2]), i, N),
                                          Scale * N)

\* The hexes a walk of at most k steps from start can stand on, when every
\* step goes to a neighbour that is not an obstacle.
RECURSIVE Reach(_, _, _)
Reach(start, obstacles, k) ==
    IF k = 0 THEN {start}
    ELSE LET inner == Reach(start, obstacles, k - 1)
         IN  inner \cup ({cube_neighbors(h)[dir] : h \in inner, dir \in 1..6} \ obstacles)

\* C24: a path returned by cube_path begins with start, ends with goal,
\* repeats no hex, goes from neighbour to neighbour, and no walk from start
\* to goal that avoids the obstacles has fewer hexes; for start = goal it is
\* <<start>>.
PathShortest ==
    Done("cube_path") /\ res # None =>
        /\ res[1] = args[1]
        /\ res[Len(res)] = args[2]
        /\ Distinct(res)
        /\ Adjacent(res)
        /\ Len(res) > 1 => args[2] \notin Reach(args[1], args[3], Len(res) - 2)
        /\ args[1] = args[2] => res = <<args[1]>>

\* A path that is longer than the distance because obstacles force a
\* detour.
PathShortestWitness ==
    /\ Done("cube_path")
    /\ res # None
    /\ args[3] # {}
    /\ Len(res) > cube_distance(args[1], args[2]) + 1
    /\ args[2] \in Reach(args[1], args[3], Len(res) - 1)

\* What is left to do for a search with the limit m: twice the hexes
\* within distance m of start not yet recorded (there are 3m^2 + 3m + 1
\* such hexes, and every recorded hex is one of them), the frontier, and
\* the loop itself.
Remaining(l, p, m) ==
    2 * (3 * m * m + 3 * m + 1 - Cardinality(DOMAIN l.distance))
        + Len(l.frontier) + (IF p = "loop" THEN 1 ELSE 0)

\* The fewest steps of a walk over non-obstacle hexes to h, for h in the
\* last of levels, where levels[j] holds the hexes within j steps.
Steps(levels, h) ==
    CHOOSE j \in DOMAIN levels :
        /\ h \in levels[j]
        /\ j > 0 => h \notin levels[j - 1]

\* C25: with a limit m >= 0 cube_bfs terminates, whatever the goals and
\* the obstacles: the search stays within distance m of start, and every
\* step of its loop lessens what remains to do.  When it ends because the
\* frontier is empty, the keys of the map returned are exactly the hexes
\* within m steps of start over non-obstacle hexes, each with its fewest
\* steps.
LimitedSearchBounded ==
    op = "cube_bfs" /\ pc = "loop" /\ args[4] # None =>
        /\ ~LeftHorizon
        /\ \A h \in DOMAIN loc.distance : cube_distance(args[1], h) <= args[4][1]
        /\ Remaining(loc, pc, args[4][1]) > 0

LimitedSearchProgress ==
    op = "cube_bfs" /\ pc = "loop" /\ args[4] # None =>
        Remaining(loc', pc', args[4][1]) < Remaining(loc, pc, args[4][1])

LimitedSearchMap ==
    Done("cube_bfs") /\ args[4] # None /\ ~EndedAtGoal =>
        /\ loc.frontier = <<>>
        /\ LET levels == [j \in 0..args[4][1] |-> Reach(args[1], args[3], j)]
           IN  /\ DOMAIN res = levels[args[4][1]]
               /\ \A h \in DOMAIN res : res[h] = Steps(levels, h)

LimitedSearch ==
    /\ [](LimitedSearchBounded)
    /\ [](LimitedSearchMap)
    /\ [][LimitedSearchProgress]_vars

\* No goal, obstacles next to start: the search ran dry at the limit, and
\* a free hex within distance m that takes more than m steps is not in the
\* map.
LimitedSearchWitness ==
    /\ Done("cube_bfs")
    /\ args[2] = {}
    /\ args[3] # {}
    /\ args[4] = <<MaxLimit>>
    /\ \E h \in Disc(args[1], MaxLimit) \ args[3] : h \notin DOMAIN res
    /\ \E h \in DOMAIN res : res[h] = MaxLimit

====
